---- MODULE Spec2Model ----
(***************************************************************************)
(* Model of ttldtor::process::Process (src/src/process.cpp): the five      *)
(* queries getKernelProcessorTime, getUserProcessorTime,                   *)
(* getTotalProcessorTime, getWorkingSetSize and getPrivateMemorySize under *)
(* the four build-time strategies (WIN32, __linux__, __APPLE__, fallback). *)
(*                                                                         *)
(* std::uint64_t values are kept at their full width: a value is a tuple   *)
(* of eight limbs of eight bits each, least significant limb first,        *)
(* and all arithmetic on them wraps modulo 2^64 exactly as the C++ does.   *)
(***************************************************************************)
EXTENDS Integers, Sequences, FiniteSets, TLC

(***************************************************************************)
(* Bounds of the model.                                                    *)
(***************************************************************************)
\* Number of caller threads of the concurrent specification.
NumThreads == 2

Threads == 1..NumThreads

(***************************************************************************)
(* std::uint64_t as limbs.                                                 *)
(***************************************************************************)
Base == 2^8
NLimbs == 64 \div 8
Limbs == 1..NLimbs

U64Zero == <<0, 0, 0, 0, 0, 0, 0, 0>>
U64Max == [i \in Limbs |-> Base - 1]

\* static_cast<std::uint64_t>(n) of a small non-negative integer n (n < 2^31).
FromNat(n) ==
    <<n % Base, (n \div Base) % Base, (n \div (Base^2)) % Base, (n \div (Base^3)) % Base,
      0, 0, 0, 0>>

\* 2^k as a 64-bit value, 0 <= k < 64.
Pow2Limb(k, i) == IF i = (k \div 8) + 1 THEN 2^(k % 8) ELSE 0
U64Pow2(k) ==
    <<Pow2Limb(k, 1), Pow2Limb(k, 2), Pow2Limb(k, 3), Pow2Limb(k, 4), Pow2Limb(k, 5), Pow2Limb(k, 6), Pow2Limb(k, 7), Pow2Limb(k, 8)>>

\* Carry into limb i of a*m + c (m, c small).
RECURSIVE MulAddCarry(_, _, _, _)
MulAddCarry(a, m, c, i) ==
    IF i = 1 THEN c ELSE (a[i-1] * m + MulAddCarry(a, m, c, i-1)) \div Base

\* (a*m + c) mod 2^64.
MulAddLimb(a, m, c, i) == (a[i] * m + MulAddCarry(a, m, c, i)) % Base
U64MulAdd(a, m, c) ==
    <<MulAddLimb(a, m, c, 1), MulAddLimb(a, m, c, 2), MulAddLimb(a, m, c, 3),
      MulAddLimb(a, m, c, 4), MulAddLimb(a, m, c, 5), MulAddLimb(a, m, c, 6),
      MulAddLimb(a, m, c, 7), MulAddLimb(a, m, c, 8)>>

\* TRUE iff a*m + c does not fit 64 bits.
U64MulAddOverflows(a, m, c) == MulAddCarry(a, m, c, NLimbs + 1) # 0

\* Carry into limb i of a + b.
RECURSIVE AddCarry(_, _, _)
AddCarry(a, b, i) ==
    IF i = 1 THEN 0 ELSE (a[i-1] + b[i-1] + AddCarry(a, b, i-1)) \div Base

\* (a + b) mod 2^64: unsigned addition.
AddLimb(a, b, i) == (a[i] + b[i] + AddCarry(a, b, i)) % Base
U64Add(a, b) ==
    <<AddLimb(a, b, 1), AddLimb(a, b, 2), AddLimb(a, b, 3), AddLimb(a, b, 4),
      AddLimb(a, b, 5), AddLimb(a, b, 6), AddLimb(a, b, 7), AddLimb(a, b, 8)>>

\* Remainder of the limbs above and including limb i, modulo d (long division).
RECURSIVE DivRem(_, _, _)
DivRem(a, d, i) ==
    IF i > NLimbs THEN 0 ELSE (DivRem(a, d, i+1) * Base + a[i]) % d

\* a / d, unsigned integer division by a small d > 0 (d < 2^23).
DivLimb(a, d, i) == (DivRem(a, d, i+1) * Base + a[i]) \div d
U64Div(a, d) ==
    <<DivLimb(a, d, 1), DivLimb(a, d, 2), DivLimb(a, d, 3), DivLimb(a, d, 4),
      DivLimb(a, d, 5), DivLimb(a, d, 6), DivLimb(a, d, 7), DivLimb(a, d, 8)>>

\* a % d.
U64Mod(a, d) == DivRem(a, d, 1)


(***************************************************************************)
(* std::string as a tuple of one-character strings; positions are 0-based  *)
(* as in C++, and npos is -1.                                              *)
(***************************************************************************)
npos == 0 - 1

DigitChars == <<"0", "1", "2", "3", "4", "5", "6", "7", "8", "9">>
Digits == {DigitChars[i] : i \in 1..10}
DigitVal(ch) == (CHOOSE i \in 1..10 : DigitChars[i] = ch) - 1

\* TRUE iff key occurs in s at 0-based position p.
MatchesAt(s, key, p) ==
    /\ p + Len(key) <= Len(s)
    /\ \A j \in 1..Len(key) : s[p + j] = key[j]

\* s.find(key): position of the first occurrence of key in s, or npos.
Find(s, key) ==
    LET hits == {p \in 0..Len(s) : MatchesAt(s, key, p)}
    IN  IF hits = {} THEN npos ELSE CHOOSE p \in hits : \A r \in hits : p <= r

\* s.find_first_of("0123456789", pos): first position >= pos holding a digit, or npos.
FindFirstOfDigits(s, pos) ==
    LET hits == {p \in 0..(Len(s) - 1) : p >= pos /\ s[p + 1] \in Digits}
    IN  IF hits = {} THEN npos ELSE CHOOSE p \in hits : \A r \in hits : p <= r

\* s.substr(pos): the characters of s from 0-based position pos on.
Substr(s, pos) == SubSeq(s, pos + 1, Len(s))

\* std::stoll on a string that starts with a digit: the maximal leading digit
\* run is accumulated; out_of_range is thrown when the value exceeds
\* LLONG_MAX = 2^63 - 1 (the accumulator left 64 bits, or its top bit is set).
RECURSIVE StollAcc(_, _, _, _)
StollAcc(s, i, acc, ovf) ==
    IF i > Len(s) \/ s[i] \notin Digits
    THEN [value |-> acc, out_of_range |-> ovf \/ acc[NLimbs] >= Base \div 2]
    ELSE StollAcc(s, i + 1, U64MulAdd(acc, 10, DigitVal(s[i])),
                  ovf \/ U64MulAddOverflows(acc, 10, DigitVal(s[i])))

Stoll(s) == StollAcc(s, 1, U64Zero, FALSE)

(***************************************************************************)
(* Parser::parseStatus.                                                    *)
(***************************************************************************)
\* The fixed offset past the start of the key at which the digit search starts.
KeyOffset == 6

\* foundKeyPos + 6: where find_first_of starts.
ValueSearchStart(foundKeyPos) == foundKeyPos + KeyOffset

\* Faulty variant: a missing key is reported as found at position 0.
FoundKeyPosZeroWhenMissing(s, key) == IF Find(s, key) = npos THEN 0 ELSE Find(s, key)

\* auto foundKeyPos = s.find(key).
FoundKeyPos(s, key) == Find(s, key)

parseStatus(s, key) ==
    LET foundKeyPos == FoundKeyPos(s, key)
    IN  IF foundKeyPos # npos
        THEN LET foundValuePos == FindFirstOfDigits(s, ValueSearchStart(foundKeyPos))
             IN  IF foundValuePos # npos
                 THEN LET r == Stoll(Substr(s, foundValuePos))
                      IN  IF r.out_of_range
                          THEN [resultType |-> "OK", value |-> U64Zero]
                          ELSE [resultType |-> "OK", value |-> r.value]
                 ELSE [resultType |-> "VALUE_NOT_FOUND", value |-> U64Zero]
        ELSE [resultType |-> "KEY_NOT_FOUND", value |-> U64Zero]

\* The two keys the memory queries search for.
KeyVmRSS == <<"V", "m", "R", "S", "S", ":">>
KeyVmSize == <<"V", "m", "S", "i", "z", "e", ":">>

\* Number of bytes per unit of the status file.
KiB == 1024

\* Faulty variant: a decimal kilo instead of 1024.
ToBytesDecimalKilo(value) == U64MulAdd(value, 1000, 0)

\* result.value * 1024, in std::uint64_t.
ToBytes(value) == U64MulAdd(value, KiB, 0)

\* Faulty variant: the scan also goes on after VALUE_NOT_FOUND.
ScanContinuesUnlessOK(result) == result.resultType # "OK"

\* The scan loop's test: only KEY_NOT_FOUND continues with the next line.
ScanContinues(result) == result.resultType = "KEY_NOT_FOUND"

(***************************************************************************)
(* Processor-time conversions.                                             *)
(***************************************************************************)
\* WIN32: FILETIME, two 32-bit words; GetProcessTimes reports 100-ns ticks.
ZeroFileTime == [dwLowDateTime |-> <<0, 0, 0, 0>>, dwHighDateTime |-> <<0, 0, 0, 0>>]

\* The FILETIME the OS writes for a 64-bit tick count.
ToFileTime(ticks) ==
    [dwLowDateTime |-> <<ticks[1], ticks[2], ticks[3], ticks[4]>>,
     dwHighDateTime |-> <<ticks[5], ticks[6], ticks[7], ticks[8]>>]

\* Faulty variant: the high word is lost (a 32-bit shift of a 32-bit value).
FileTimeLowWordOnly(ft) ==
    <<ft.dwLowDateTime[1], ft.dwLowDateTime[2], ft.dwLowDateTime[3], ft.dwLowDateTime[4],
      0, 0, 0, 0>>

\* static_cast<uint64_t>(ft.dwLowDateTime) | (static_cast<uint64_t>(ft.dwHighDateTime) << 32).
FileTimeToU64(ft) ==
    <<ft.dwLowDateTime[1], ft.dwLowDateTime[2], ft.dwLowDateTime[3], ft.dwLowDateTime[4],
      ft.dwHighDateTime[1], ft.dwHighDateTime[2], ft.dwHighDateTime[3], ft.dwHighDateTime[4]>>

\* 100-nanosecond ticks per millisecond.
TicksPerMs == 10000

WinKernelMs(kernelTime) == U64Div(FileTimeToU64(kernelTime), TicksPerMs)

WinUserMs(userTime) == U64Div(FileTimeToU64(userTime), TicksPerMs)

\* (kernelTime2 + userTime2) / 10'000.
WinTotalMs(kernelTime, userTime) ==
    U64Div(U64Add(FileTimeToU64(kernelTime), FileTimeToU64(userTime)), TicksPerMs)

\* linux: rusage, two timevals of seconds and microseconds.
ZeroTimeval == [tv_sec |-> 0, tv_usec |-> 0]
ZeroRusage == [ru_stime |-> ZeroTimeval, ru_utime |-> ZeroTimeval]

MsPerSec == 1000
UsecPerMs == 1000

\* Faulty variant: the sub-millisecond residue rounds up.
TimevalToMsRoundingUp(tv) ==
    U64Add(U64MulAdd(FromNat(tv.tv_sec), MsPerSec, 0),
           U64Div(FromNat(tv.tv_usec + UsecPerMs - 1), UsecPerMs))

\* static_cast<uint64_t>(tv_sec) * 1000ULL + static_cast<uint64_t>(tv_usec) / 1000ULL.
TimevalToMs(tv) ==
    U64Add(U64MulAdd(FromNat(tv.tv_sec), MsPerSec, 0),
           U64Div(FromNat(tv.tv_usec), UsecPerMs))

\* RUsageResult's constructor.
RUsageResult(ru) ==
    LET sysTime == TimevalToMs(ru.ru_stime)
        userTime == TimevalToMs(ru.ru_utime)
    IN  [sysTime |-> sysTime, userTime |-> userTime, totalTime |-> U64Add(sysTime, userTime)]

\* __APPLE__: rusage_info_v2 in mach ticks, scaled by mach_timebase_info.
ZeroRusageInfo == [ri_system_time |-> U64Zero, ri_user_time |-> U64Zero]
ZeroTimebase == [numer |-> 0, denom |-> 0]

NSEC_TO_MSEC_RATIO == 1000000

\* ((ticks * time_base.numer) / time_base.denom) / NSEC_TO_MSEC_RATIO, denom # 0.
MachTicksToMs(ticks, tb) ==
    U64Div(U64Div(U64MulAdd(ticks, tb.numer, 0), tb.denom), NSEC_TO_MSEC_RATIO)

\* ProcPidRUsageResult's conversions, for a non-zero denominator.
ProcPidRUsageResult(info, tb) ==
    LET sysTime == MachTicksToMs(info.ri_system_time, tb)
        userTime == MachTicksToMs(info.ri_user_time, tb)
    IN  [sysTime |-> sysTime, userTime |-> userTime, totalTime |-> U64Add(sysTime, userTime)]

\* The three results when every division is by a zero denominator and the
\* hardware yields 0 for it (the other outcome is a trap).
DivByZeroResult == [sysTime |-> U64Zero, userTime |-> U64Zero, totalTime |-> U64Zero]

(***************************************************************************)
(* Order on 64-bit values and on the raw readings.                         *)
(***************************************************************************)
RECURSIVE U64LeFrom(_, _, _)
U64LeFrom(a, b, i) ==
    IF i = 0 THEN TRUE
    ELSE IF a[i] < b[i] THEN TRUE
    ELSE IF a[i] > b[i] THEN FALSE
    ELSE U64LeFrom(a, b, i - 1)

U64Le(a, b) == U64LeFrom(a, b, NLimbs)

TimevalLe(a, b) ==
    a.tv_sec < b.tv_sec \/ (a.tv_sec = b.tv_sec /\ a.tv_usec <= b.tv_usec)

(***************************************************************************)
(* The environment: build target and the readings the OS can report.       *)
(***************************************************************************)
Platforms == {"WIN32", "linux", "APPLE", "other"}

TimeQueries == {"kernel", "user", "total"}

\* WIN32: kernel and user tick counts (100 ns).
WinKernelTicks == {FromNat(5000), FromNat(50000), U64Add(U64Pow2(32), FromNat(15000))}
WinUserTicks == {FromNat(5000), FromNat(20000), U64Pow2(33)}
WinReadings == {[kernel |-> k, user |-> u] : k \in WinKernelTicks, u \in WinUserTicks}

\* linux: kernel and user timevals.
LinuxStimes == {ZeroTimeval, [tv_sec |-> 0, tv_usec |-> 999], [tv_sec |-> 1, tv_usec |-> 999999]}
LinuxUtimes == {ZeroTimeval, [tv_sec |-> 0, tv_usec |-> 1500], [tv_sec |-> 1000000, tv_usec |-> 500000]}
LinuxReadings == {[ru_stime |-> k, ru_utime |-> u] : k \in LinuxStimes, u \in LinuxUtimes}

\* __APPLE__: kernel and user mach ticks, and the timebases of the hardware.
MachSystemTicks == {FromNat(24000000), U64Pow2(56)}
MachUserTicks == {FromNat(23999), U64Add(U64Pow2(40), FromNat(7))}
MacReadings ==
    {[ri_system_time |-> k, ri_user_time |-> u] : k \in MachSystemTicks, u \in MachUserTicks}
Timebases == {[numer |-> 1, denom |-> 1], [numer |-> 125, denom |-> 3]}

ZeroReading(p) ==
    CASE p = "WIN32" -> [kernel |-> U64Zero, user |-> U64Zero]
      [] p = "linux" -> ZeroRusage
      [] p = "APPLE" -> ZeroRusageInfo
      [] OTHER -> <<>>

Readings(p) ==
    CASE p = "WIN32" -> WinReadings
      [] p = "linux" -> LinuxReadings
      [] p = "APPLE" -> MacReadings
      [] OTHER -> {<<>>}

\* a is not later than b, counter by counter.
ReadingLe(p, a, b) ==
    CASE p = "WIN32" -> U64Le(a.kernel, b.kernel) /\ U64Le(a.user, b.user)
      [] p = "linux" -> TimevalLe(a.ru_stime, b.ru_stime) /\ TimevalLe(a.ru_utime, b.ru_utime)
      [] p = "APPLE" -> /\ U64Le(a.ri_system_time, b.ri_system_time)
                        /\ U64Le(a.ri_user_time, b.ri_user_time)
      [] OTHER -> TRUE

\* WIN32 and __APPLE__: resident and virtual (private) size in bytes.
ZeroMemInfo == [resident |-> U64Zero, virtual |-> U64Zero]
MemInfos ==
    {[resident |-> r, virtual |-> v] :
        r \in {FromNat(4096), U64Pow2(33)}, v \in {FromNat(8192), U64Pow2(47)}}

(***************************************************************************)
(* linux: the status pseudo-files the kernel can present.  A line is kept  *)
(* in the pieces it was written from (text before the key, the key, the    *)
(* separator, the digit run, the rest); the program only ever sees Text.   *)
(***************************************************************************)
\* The characters of a run of decimal digits.
Run(ds) == [i \in 1..Len(ds) |-> DigitChars[ds[i] + 1]]

StatusLine(pre, key, ws, run, suf) ==
    [pre |-> pre, key |-> key, ws |-> ws, run |-> run, suf |-> suf]

\* The line as the program reads it.
Text(l) == l.pre \o l.key \o l.ws \o l.run \o l.suf

Blanks == <<" ", " ", " ", " ">>
kB == <<" ", "k", "B">>

LineName == StatusLine(<<"N", "a", "m", "e", ":", " ", "s", "h">>, <<>>, <<>>, <<>>, <<>>)
LineVmHWM == StatusLine(<<"V", "m", "H", "W", "M", ":", " ", " ", " ", " ", "5", "5", "5", "5", " ", "k", "B">>, <<>>, <<>>, <<>>, <<>>)
LineRss(ds) == StatusLine(<<>>, KeyVmRSS, Blanks, Run(ds), kB)
LineSize(ds) == StatusLine(<<>>, KeyVmSize, Blanks, Run(ds), kB)
\* The key with no digit after it.
LineRssNoValue == StatusLine(<<>>, KeyVmRSS, Blanks, <<>>, <<>>)
\* The key with no digit after it, and digits before it.
LineSizeNoValue == StatusLine(<<"1", "2", " ">>, KeyVmSize, <<" ">>, <<>>, <<"k", "B">>)
\* The key not at the start of the line, and a digit run with leading zeros.
LineRssIndented == StatusLine(<<" ">>, KeyVmRSS, <<" ">>, Run(<<0, 0, 1, 2>>), kB)
\* The digit run right after the key, and nothing after it.
LineSizeTight == StatusLine(<<>>, KeyVmSize, <<>>, Run(<<0>>), <<>>)

StatusFiles ==
    << <<LineName, LineSize(<<2, 0, 4, 8>>), LineRss(<<1, 2, 3, 4>>)>>,
       <<>>,
       <<LineName, LineVmHWM>>,
       <<LineRssNoValue, LineRss(<<1, 2, 3, 4>>), LineSizeNoValue, LineSize(<<7, 7>>)>>,
       <<LineRss(<<9, 2, 2, 3, 3, 7, 2, 0, 3, 6, 8, 5, 4, 7, 7, 5, 8, 0, 7>>), LineSize(<<9, 2, 2, 3, 3, 7, 2, 0, 3, 6, 8, 5, 4, 7, 7, 5, 8, 0, 8>>)>>,
       <<LineRss(<<1, 8, 4, 4, 6, 7, 4, 4, 0, 7, 3, 7, 0, 9, 5, 5, 1, 6, 1, 5>>), LineSize(<<1, 8, 4, 4, 6, 7, 4, 4, 0, 7, 3, 7, 0, 9, 5, 5, 1, 6, 1, 6>>)>>,
       <<LineRss(<<1, 8, 0, 1, 4, 3, 9, 8, 5, 0, 9, 4, 8, 1, 9, 8, 3>>), LineSize(<<1, 8, 0, 1, 4, 3, 9, 8, 5, 0, 9, 4, 8, 1, 9, 8, 4>>)>>,
       <<LineRssIndented, LineSizeTight>> >>

NumFiles == Len(StatusFiles)

VARIABLES
    platform,    \* the build target
    cpu,         \* the OS's processor-time accounting of the process
    hwTimebase,  \* what mach_timebase_info reports on this hardware
    time_base,   \* static mach_timebase_info_data_t time_base
    pc,          \* per thread: where its running query stands
    cur,         \* per thread: the locals of its running query
    timeRet,     \* per thread and query: the last value returned, and from what
    crashed,     \* the process was killed by a trap
    memInfo,     \* the OS's memory counters of the process (WIN32, __APPLE__)
    memRet,      \* per thread and memory query: the last value returned, and from what
    is           \* per thread: the file handle of its std::ifstream is

vars == <<platform, cpu, hwTimebase, time_base, pc, cur, timeRet, crashed, memInfo, memRet, is>>

timeVars == <<cpu, hwTimebase, time_base, timeRet, crashed>>
memVars == <<memInfo, memRet, is>>

MemQueries == {"workingSet", "private"}

Idle == [q |-> "none"]
NotCalled == [called |-> FALSE]

\* The record of a returned processor time: the value, the structure the
\* syscall left, from which it was converted, and the timebase the conversion
\* read (__APPLE__ only).
TimeReturn(val, reading, tb) ==
    [called |-> TRUE, val |-> val, reading |-> reading, tb |-> tb]

\* The least reading of a platform: the time used before the first query.
FirstReading(p) == CHOOSE r \in Readings(p) : \A o \in Readings(p) : ReadingLe(p, r, o)

InitCommon ==
    /\ time_base = ZeroTimebase
    /\ pc = [t \in Threads |-> "idle"]
    /\ cur = [t \in Threads |-> Idle]
    /\ timeRet = [t \in Threads |-> [q \in TimeQueries |-> NotCalled]]
    /\ crashed = FALSE
    /\ memRet = [t \in Threads |-> [q \in MemQueries |-> NotCalled]]
    /\ is = [t \in Threads |-> "closed"]

InitTime ==
    /\ platform \in Platforms
    /\ cpu = FirstReading(platform)
    /\ hwTimebase \in (IF platform = "APPLE" THEN Timebases ELSE {ZeroTimebase})
    /\ memInfo = ZeroMemInfo
    /\ InitCommon

\* The process runs and the OS accounts more kernel and user time.
Tick ==
    /\ ~crashed
    /\ \E r \in Readings(platform) :
          /\ r # cpu
          /\ ReadingLe(platform, cpu, r)
          /\ cpu' = r
    /\ UNCHANGED <<platform, hwTimebase, time_base, pc, cur, timeRet, crashed, memVars>>

\* What the accounting syscall leaves in the zero-initialised output structure.
Syscall(ok) == IF ok THEN cpu ELSE ZeroReading(platform)

\* A query that runs to its return in one step.
ReturnTime(t, q, val, reading) ==
    /\ timeRet' = [timeRet EXCEPT ![t][q] = TimeReturn(val, reading, ZeroTimebase)]
    /\ UNCHANGED <<platform, cpu, hwTimebase, time_base, pc, cur, crashed, memVars>>

CanCall(t, p) == ~crashed /\ platform = p /\ pc[t] = "idle"

(***************************************************************************)
(* WIN32.                                                                  *)
(***************************************************************************)
\* GetProcessTimes(h, &creationTime, &exitTime, &kernelTime, &userTime).
GetProcessTimes(ok) ==
    [kernelTime |-> IF ok THEN ToFileTime(cpu.kernel) ELSE ZeroFileTime,
     userTime |-> IF ok THEN ToFileTime(cpu.user) ELSE ZeroFileTime]

WinGetKernelProcessorTime(t) ==
    /\ CanCall(t, "WIN32")
    /\ \E ok \in BOOLEAN :
          ReturnTime(t, "kernel", WinKernelMs(GetProcessTimes(ok).kernelTime), Syscall(ok))

WinGetUserProcessorTime(t) ==
    /\ CanCall(t, "WIN32")
    /\ \E ok \in BOOLEAN :
          ReturnTime(t, "user", WinUserMs(GetProcessTimes(ok).userTime), Syscall(ok))

WinGetTotalProcessorTime(t) ==
    /\ CanCall(t, "WIN32")
    /\ \E ok \in BOOLEAN :
          ReturnTime(t, "total",
                     WinTotalMs(GetProcessTimes(ok).kernelTime, GetProcessTimes(ok).userTime),
                     Syscall(ok))

(***************************************************************************)
(* linux.                                                                  *)
(***************************************************************************)
LinuxGetKernelProcessorTime(t) ==
    /\ CanCall(t, "linux")
    /\ \E ok \in BOOLEAN :
          ReturnTime(t, "kernel", RUsageResult(Syscall(ok)).sysTime, Syscall(ok))

LinuxGetUserProcessorTime(t) ==
    /\ CanCall(t, "linux")
    /\ \E ok \in BOOLEAN :
          ReturnTime(t, "user", RUsageResult(Syscall(ok)).userTime, Syscall(ok))

LinuxGetTotalProcessorTime(t) ==
    /\ CanCall(t, "linux")
    /\ \E ok \in BOOLEAN :
          ReturnTime(t, "total", RUsageResult(Syscall(ok)).totalTime, Syscall(ok))

(***************************************************************************)
(* Fallback.                                                               *)
(***************************************************************************)
OtherGetProcessorTime(t, q) ==
    /\ CanCall(t, "other")
    /\ ReturnTime(t, q, U64Zero, <<>>)

(***************************************************************************)
(* __APPLE__: a query is proc_pid_rusage, the test of the static timebase, *)
(* mach_timebase_info when the denominator is still 0, and the conversion. *)
(* The static is read and written without synchronisation, so each access  *)
(* is a step of its own and the two fields are written one at a time.      *)
(***************************************************************************)
\* rusage_info_v2 rusage_info_data{}; proc_pid_rusage(getpid(), RUSAGE_INFO_V2, ...).
MacCall(t, q) ==
    /\ CanCall(t, "APPLE")
    /\ \E ok \in BOOLEAN :
          cur' = [cur EXCEPT ![t] = [q |-> q, reading |-> Syscall(ok), wrote |-> {}]]
    /\ pc' = [pc EXCEPT ![t] = "tb_check"]
    /\ UNCHANGED <<platform, cpu, hwTimebase, time_base, timeRet, crashed, memVars>>

\* if (time_base.denom == 0)
MacCheckTimebase(t) ==
    /\ ~crashed
    /\ pc[t] = "tb_check"
    /\ pc' = [pc EXCEPT ![t] = IF time_base.denom = 0 THEN "tb_init" ELSE "convert"]
    /\ UNCHANGED <<platform, cpu, hwTimebase, time_base, cur, timeRet, crashed, memVars>>

\* mach_timebase_info(&time_base) stores one of the two fields.
MacTimebaseWrite(t, f) ==
    /\ ~crashed
    /\ pc[t] = "tb_init"
    /\ f \notin cur[t].wrote
    /\ time_base' = [time_base EXCEPT ![f] = hwTimebase[f]]
    /\ cur' = [cur EXCEPT ![t].wrote = @ \cup {f}]
    /\ pc' = [pc EXCEPT ![t] = IF cur[t].wrote \cup {f} = {"numer", "denom"}
                               THEN "convert" ELSE "tb_init"]
    /\ UNCHANGED <<platform, cpu, hwTimebase, timeRet, crashed, memVars>>

\* mach_timebase_info fails and stores nothing; its status is not looked at.
MacTimebaseFails(t) ==
    /\ ~crashed
    /\ pc[t] = "tb_init"
    /\ cur[t].wrote = {}
    /\ pc' = [pc EXCEPT ![t] = "convert"]
    /\ UNCHANGED <<platform, cpu, hwTimebase, time_base, cur, timeRet, crashed, memVars>>

\* The member of the result the query returns.
Member(result, q) ==
    CASE q = "kernel" -> result.sysTime
      [] q = "user" -> result.userTime
      [] q = "total" -> result.totalTime

MacFinish(t, result) ==
    /\ timeRet' = [timeRet EXCEPT ![t][cur[t].q] =
                      TimeReturn(Member(result, cur[t].q), cur[t].reading, time_base)]
    /\ pc' = [pc EXCEPT ![t] = "idle"]
    /\ cur' = [cur EXCEPT ![t] = Idle]
    /\ UNCHANGED <<platform, cpu, hwTimebase, time_base, crashed, memVars>>

\* The conversions with a non-zero denominator.
MacConvert(t) ==
    /\ ~crashed
    /\ pc[t] = "convert"
    /\ time_base.denom # 0
    /\ MacFinish(t, ProcPidRUsageResult(cur[t].reading, time_base))

\* The conversions with a zero denominator: an integer division by zero,
\* which traps or, where the hardware defines it, yields 0.
MacConvertDivByZero(t) ==
    /\ ~crashed
    /\ pc[t] = "convert"
    /\ time_base.denom = 0
    /\ \/ /\ crashed' = TRUE
          /\ UNCHANGED <<platform, cpu, hwTimebase, time_base, pc, cur, timeRet, memVars>>
       \/ MacFinish(t, DivByZeroResult)

\* What a running query does next.
MacStep(t) ==
    \/ MacCheckTimebase(t)
    \/ \E f \in {"numer", "denom"} : MacTimebaseWrite(t, f)
    \/ MacConvert(t)

\* The same when mach_timebase_info fails.
MacFailStep(t) ==
    \/ MacTimebaseFails(t)
    \/ MacConvertDivByZero(t)

(***************************************************************************)
(* The processor-time queries called one after the other by one thread.    *)
(***************************************************************************)
Caller == CHOOSE t \in Threads : \A o \in Threads : t <= o

NextTime ==
    \/ Tick
    \/ WinGetKernelProcessorTime(Caller)
    \/ WinGetUserProcessorTime(Caller)
    \/ WinGetTotalProcessorTime(Caller)
    \/ LinuxGetKernelProcessorTime(Caller)
    \/ LinuxGetUserProcessorTime(Caller)
    \/ LinuxGetTotalProcessorTime(Caller)
    \/ \E q \in TimeQueries : OtherGetProcessorTime(Caller, q)
    \/ \E q \in TimeQueries : MacCall(Caller, q)
    \/ MacStep(Caller)
    \/ MacFailStep(Caller)

SpecTime == InitTime /\ [][NextTime]_vars

(***************************************************************************)
(* __APPLE__, the first queries of several threads at once, on a system    *)
(* where mach_timebase_info succeeds.                                      *)
(***************************************************************************)
InitConcurrent ==
    /\ platform = "APPLE"
    /\ cpu = FirstReading("APPLE")
    /\ hwTimebase \in Timebases
    /\ memInfo = ZeroMemInfo
    /\ InitCommon

\* A thread's first processor-time query.
MacFirstCall(t, q) ==
    /\ \A o \in TimeQueries : ~timeRet[t][o].called
    /\ MacCall(t, q)

NextConcurrent ==
    \E t \in Threads :
        \/ \E q \in TimeQueries : MacFirstCall(t, q)
        \/ MacStep(t)

SpecConcurrent == InitConcurrent /\ [][NextConcurrent]_vars

(***************************************************************************)
(* The memory queries.                                                     *)
(***************************************************************************)
\* The record of a returned memory size: the value, whether the source was
\* obtained (syscall succeeded, file opened), the file read (0: none), the
\* number of lines parsed, and what the parser said of the last of them.
MemReturn(val, ok, file, scanned, result) ==
    [called |-> TRUE, val |-> val, ok |-> ok, file |-> file, scanned |-> scanned,
     result |-> result]

NoResult == [resultType |-> "none", value |-> U64Zero]

InitMem ==
    /\ platform \in Platforms
    /\ cpu = FirstReading(platform)
    /\ hwTimebase = ZeroTimebase
    /\ memInfo \in (IF platform \in {"WIN32", "APPLE"} THEN MemInfos ELSE {ZeroMemInfo})
    /\ InitCommon

\* The process maps or unmaps memory.
MemChange ==
    /\ platform \in {"WIN32", "APPLE"}
    /\ \E m \in MemInfos : m # memInfo /\ memInfo' = m
    /\ UNCHANGED <<platform, pc, cur, timeVars, memRet, is>>

\* A memory query that runs to its return in one step.
ReturnMem(t, q, val, ok) ==
    /\ memRet' = [memRet EXCEPT ![t][q] = MemReturn(val, ok, 0, 0, NoResult)]
    /\ UNCHANGED <<platform, pc, cur, timeVars, memInfo, is>>

\* WIN32: GetProcessMemoryInfo into PROCESS_MEMORY_COUNTERS_EX processMemoryCountersEx{}.
WinGetWorkingSetSize(t) ==
    /\ CanCall(t, "WIN32")
    /\ \E ok \in BOOLEAN :
          ReturnMem(t, "workingSet", IF ok THEN memInfo.resident ELSE U64Zero, ok)

WinGetPrivateMemorySize(t) ==
    /\ CanCall(t, "WIN32")
    /\ \E ok \in BOOLEAN :
          ReturnMem(t, "private", IF ok THEN memInfo.virtual ELSE U64Zero, ok)

\* __APPLE__: proc_pidinfo(getpid(), PROC_PIDTASKALLINFO, ...) into proc_taskallinfo info{}.
MacGetWorkingSetSize(t) ==
    /\ CanCall(t, "APPLE")
    /\ \E ok \in BOOLEAN :
          ReturnMem(t, "workingSet", IF ok THEN memInfo.resident ELSE U64Zero, ok)

MacGetPrivateMemorySize(t) ==
    /\ CanCall(t, "APPLE")
    /\ \E ok \in BOOLEAN :
          ReturnMem(t, "private", IF ok THEN memInfo.virtual ELSE U64Zero, ok)

\* Fallback.
OtherGetMemorySize(t, q) ==
    /\ CanCall(t, "other")
    /\ ReturnMem(t, q, U64Zero, TRUE)

(***************************************************************************)
(* linux: std::ifstream is("/proc/self/status"), then the getline loop,    *)
(* one line a step.  The stream is a local: leaving the function destroys  *)
(* it, which closes the file.                                              *)
(***************************************************************************)
\* The key a query searches for.
Key(q) == IF q = "workingSet" THEN KeyVmRSS ELSE KeyVmSize

\* Faulty variant: the return from inside the loop leaves the file open.
HandleLeakOnEarlyReturn(path) == IF path = "found" THEN "open" ELSE "closed"

\* The handle once the function has returned, by either return of the loop.
HandleAfterReturn(path) == "closed"

\* The constructor fails to open the file: if (is.fail()) return 0ULL.
LinuxOpenFails(t, q) ==
    /\ CanCall(t, "linux")
    /\ memRet' = [memRet EXCEPT ![t][q] = MemReturn(U64Zero, FALSE, 0, 0, NoResult)]
    /\ UNCHANGED <<platform, pc, cur, timeVars, memInfo, is>>

\* The constructor opens the file, whatever the kernel presents this time.
LinuxOpen(t, q) ==
    /\ CanCall(t, "linux")
    /\ \E f \in 1..NumFiles :
          cur' = [cur EXCEPT ![t] = [q |-> q, file |-> f, line |-> 0]]
    /\ pc' = [pc EXCEPT ![t] = "scan"]
    /\ is' = [is EXCEPT ![t] = "open"]
    /\ UNCHANGED <<platform, timeVars, memInfo, memRet>>

\* The line std::getline reads next, when there is one.
NextLine(t) == Text(StatusFiles[cur[t].file][cur[t].line + 1])

HasNextLine(t) == cur[t].line < Len(StatusFiles[cur[t].file])

LinuxReturn(t, val, scanned, result, path) ==
    /\ memRet' = [memRet EXCEPT ![t][cur[t].q] =
                     MemReturn(val, TRUE, cur[t].file, scanned, result)]
    /\ pc' = [pc EXCEPT ![t] = "idle"]
    /\ cur' = [cur EXCEPT ![t] = Idle]
    /\ is' = [is EXCEPT ![t] = HandleAfterReturn(path)]
    /\ UNCHANGED <<platform, timeVars, memInfo>>

\* KEY_NOT_FOUND: continue.
LinuxScanSkip(t) ==
    /\ ~crashed
    /\ pc[t] = "scan"
    /\ HasNextLine(t)
    /\ ScanContinues(parseStatus(NextLine(t), Key(cur[t].q)))
    /\ cur' = [cur EXCEPT ![t].line = @ + 1]
    /\ UNCHANGED <<platform, pc, timeVars, memVars>>

\* Any other result: return result.value * 1024.
LinuxScanReturn(t) ==
    /\ ~crashed
    /\ pc[t] = "scan"
    /\ HasNextLine(t)
    /\ LET result == parseStatus(NextLine(t), Key(cur[t].q))
       IN  /\ ~ScanContinues(result)
           /\ LinuxReturn(t, ToBytes(result.value), cur[t].line + 1, result, "found")

\* std::getline fails at the end of the file: return 0LL.
LinuxScanEof(t) ==
    /\ ~crashed
    /\ pc[t] = "scan"
    /\ ~HasNextLine(t)
    /\ LinuxReturn(t, U64Zero, cur[t].line,
                   IF cur[t].line = 0 THEN NoResult
                   ELSE parseStatus(Text(StatusFiles[cur[t].file][cur[t].line]), Key(cur[t].q)),
                   "eof")

NextMem ==
    \/ MemChange
    \/ WinGetWorkingSetSize(Caller)
    \/ WinGetPrivateMemorySize(Caller)
    \/ MacGetWorkingSetSize(Caller)
    \/ MacGetPrivateMemorySize(Caller)
    \/ \E q \in MemQueries : OtherGetMemorySize(Caller, q)
    \/ \E q \in MemQueries : LinuxOpenFails(Caller, q)
    \/ \E q \in MemQueries : LinuxOpen(Caller, q)
    \/ LinuxScanSkip(Caller)
    \/ LinuxScanReturn(Caller)
    \/ LinuxScanEof(Caller)

SpecMem == InitMem /\ [][NextMem]_vars

(***************************************************************************)
(* Natural numbers of any size, as tuples of decimal digits, least         *)
(* significant first and without leading zeros (0 is the empty tuple):     *)
(* what the properties below compute the expected values in.               *)
(***************************************************************************)
RECURSIVE NatToDec(_)
NatToDec(n) == IF n = 0 THEN <<>> ELSE <<n % 10>> \o NatToDec(n \div 10)

\* d*m + c.
RECURSIVE DecMulAdd(_, _, _)
DecMulAdd(d, m, c) ==
    IF d = <<>> THEN NatToDec(c)
    ELSE <<(d[1] * m + c) % 10>> \o DecMulAdd(Tail(d), m, (d[1] * m + c) \div 10)

RECURSIVE DecLeFrom(_, _, _)
DecLeFrom(a, b, i) ==
    IF i = 0 THEN TRUE
    ELSE IF a[i] < b[i] THEN TRUE
    ELSE IF a[i] > b[i] THEN FALSE
    ELSE DecLeFrom(a, b, i - 1)

\* a <= b.
DecLe(a, b) == Len(a) < Len(b) \/ (Len(a) = Len(b) /\ DecLeFrom(a, b, Len(a)))

\* The number a 64-bit value holds.
RECURSIVE U64ToDec(_)
U64ToDec(a) == IF a = U64Zero THEN <<>> ELSE <<U64Mod(a, 10)>> \o U64ToDec(U64Div(a, 10))

\* 2^64 - 1.
DecU64Max ==
    <<5, 1, 6, 1, 5, 5, 9, 0, 7, 3, 7, 0, 4, 4, 7, 6, 4, 4, 8, 1>>

FitsU64(d) == DecLe(d, DecU64Max)

RECURSIVE StripLeadingZeros(_)
StripLeadingZeros(d) ==
    IF d = <<>> THEN d
    ELSE IF d[Len(d)] = 0 THEN StripLeadingZeros(SubSeq(d, 1, Len(d) - 1))
    ELSE d

RECURSIVE DigitValsReversed(_)
DigitValsReversed(run) ==
    IF run = <<>> THEN <<>> ELSE DigitValsReversed(Tail(run)) \o <<DigitVal(Head(run))>>

\* The number N a digit run denotes.
RunValue(run) == StripLeadingZeros(DigitValsReversed(run))

\* The lines of status file f that were written with the key of query q.
KeyLines(f, q) == {i \in 1..Len(StatusFiles[f]) : StatusFiles[f][i].key = Key(q)}

\* The first of them, or 0.
FirstKeyLine(f, q) ==
    IF KeyLines(f, q) = {} THEN 0
    ELSE CHOOSE i \in KeyLines(f, q) : \A j \in KeyLines(f, q) : i <= j

\* The memory queries that have returned after reading a status file.
FileReturns ==
    {<<t, q>> \in Threads \X MemQueries : memRet[t][q].called /\ memRet[t][q].file # 0}

(***************************************************************************)
(* C1: on every platform, processor times returned for one and the same    *)
(* OS snapshot satisfy total = kernel + user in milliseconds (on WIN32 the *)
(* sum of the two separately converted values).                            *)
(***************************************************************************)
TotalIsKernelPlusUser ==
    \A t \in Threads :
        LET k == timeRet[t]["kernel"]
            u == timeRet[t]["user"]
            tot == timeRet[t]["total"]
        IN  (/\ k.called /\ u.called /\ tot.called
             /\ k.reading = tot.reading /\ u.reading = tot.reading
             /\ k.tb = tot.tb /\ u.tb = tot.tb)
            => tot.val = U64Add(k.val, u.val)

(***************************************************************************)
(* C2: no query ends in a crash, and a query whose source failed (syscall  *)
(* left its output zero-filled, status file not opened, timebase query     *)
(* failed) returns the zero default, the file case without scanning.       *)
(***************************************************************************)
QueriesFailSoft ==
    /\ ~crashed
    /\ \A t \in Threads, q \in TimeQueries :
          (timeRet[t][q].called /\ timeRet[t][q].reading = ZeroReading(platform))
          => timeRet[t][q].val = U64Zero
    /\ \A t \in Threads, q \in MemQueries :
          (memRet[t][q].called /\ ~memRet[t][q].ok)
          => (memRet[t][q].val = U64Zero /\ memRet[t][q].scanned = 0)

(***************************************************************************)
(* C3: linux: a line with the searched key, separator and a digit run      *)
(* denoting N (N * 1024 a 64-bit byte count) parses to OK with value N,    *)
(* and the query whose scan reaches it as the first line with the key      *)
(* returns N * 1024.                                                       *)
(***************************************************************************)
StatusValueInBytes ==
    \A c \in FileReturns :
        LET r == memRet[c[1]][c[2]]
            file == StatusFiles[r.file]
            first == FirstKeyLine(r.file, c[2])
        IN  /\ \A i \in KeyLines(r.file, c[2]) :
                  LET N == RunValue(file[i].run)
                      parsed == parseStatus(Text(file[i]), Key(c[2]))
                  IN  (file[i].run # <<>> /\ FitsU64(DecMulAdd(N, 1024, 0)))
                      => (parsed.resultType = "OK" /\ U64ToDec(parsed.value) = N)
            /\ (/\ first # 0
                /\ file[first].run # <<>>
                /\ FitsU64(DecMulAdd(RunValue(file[first].run), 1024, 0)))
               => U64ToDec(r.val) = DecMulAdd(RunValue(file[first].run), 1024, 0)

\* getWorkingSetSize has returned 1263616 for "VmRSS:    1234 kB".
StatusValueInBytesReached ==
    /\ platform = "linux"
    /\ memRet[Caller]["workingSet"].called
    /\ memRet[Caller]["workingSet"].file = 1
    /\ memRet[Caller]["workingSet"].result.value = FromNat(1234)
    /\ memRet[Caller]["workingSet"].val = FromNat(1263616)

(***************************************************************************)
(* C4: linux: the first line that contains the key decides the result; if  *)
(* it has no digit after the key (VALUE_NOT_FOUND) the scan stops there    *)
(* and the query returns 0, whatever later lines hold.                     *)
(***************************************************************************)
FirstKeyLineDecides ==
    \A c \in FileReturns :
        LET r == memRet[c[1]][c[2]]
            file == StatusFiles[r.file]
            first == FirstKeyLine(r.file, c[2])
        IN  first # 0 =>
               /\ r.scanned = first
               /\ (file[first].run = <<>> /\ \A i \in 1..Len(file[first].suf) :
                                                file[first].suf[i] \notin Digits)
                  => (r.result.resultType = "VALUE_NOT_FOUND" /\ r.val = U64Zero)

\* A query returned 0 from a file whose first key line has no value and whose
\* second key line has the value 1234.
FirstKeyLineDecidesReached ==
    /\ platform = "linux"
    /\ memRet[Caller]["workingSet"].called
    /\ memRet[Caller]["workingSet"].file = 4
    /\ StatusFiles[4][2].key = KeyVmRSS
    /\ RunValue(StatusFiles[4][2].run) = <<4, 3, 2, 1>>
    /\ memRet[Caller]["workingSet"].scanned = 1
    /\ memRet[Caller]["workingSet"].val = U64Zero

(***************************************************************************)
(* C5: linux: for a status file none of whose lines contains the key,      *)
(* parseStatus says KEY_NOT_FOUND for every line, the scan reads the whole *)
(* file, and the query returns 0.                                          *)
(***************************************************************************)
MissingKeyYieldsZero ==
    \A c \in FileReturns :
        LET r == memRet[c[1]][c[2]]
            file == StatusFiles[r.file]
        IN  KeyLines(r.file, c[2]) = {} =>
               /\ \A i \in 1..Len(file) :
                     parseStatus(Text(file[i]), Key(c[2])).resultType = "KEY_NOT_FOUND"
               /\ r.scanned = Len(file)
               /\ r.val = U64Zero

\* Both queries have read a two-line file without the key to its end.
MissingKeyYieldsZeroReached ==
    /\ platform = "linux"
    /\ \A q \in MemQueries :
          /\ memRet[Caller][q].called
          /\ memRet[Caller][q].file = 3
          /\ memRet[Caller][q].scanned = 2
          /\ memRet[Caller][q].result.resultType = "KEY_NOT_FOUND"

(***************************************************************************)
(* C6: __APPLE__: with several threads in their first query at once, every *)
(* conversion reads the one complete numerator/denominator pair of the     *)
(* hardware, never a partly written one, and none divides by zero.         *)
(***************************************************************************)
ConversionsReadCompleteTimebase ==
    /\ ~crashed
    /\ \A t \in Threads, q \in TimeQueries :
          timeRet[t][q].called =>
             (timeRet[t][q].tb.denom # 0 /\ timeRet[t][q].tb = hwTimebase)

(***************************************************************************)
(* C7: from one call of a processor-time query to the next, when the raw   *)
(* kernel and user counters read have not decreased, the milliseconds      *)
(* returned have not decreased.                                            *)
(***************************************************************************)
ProcessorTimeMonotonic ==
    [][\A t \in Threads, q \in TimeQueries :
          (/\ timeRet[t][q].called
           /\ timeRet'[t][q].called
           /\ ReadingLe(platform, timeRet[t][q].reading, timeRet'[t][q].reading))
          => U64Le(timeRet[t][q].val, timeRet'[t][q].val)]_vars

\* All three queries have returned non-zero values, the total for a later
\* reading than the other two.
ProcessorTimeMonotonicReached ==
    /\ platform \in {"WIN32", "linux", "APPLE"}
    /\ \A q \in TimeQueries : timeRet[Caller][q].called /\ timeRet[Caller][q].val # U64Zero
    /\ timeRet[Caller]["kernel"].reading = timeRet[Caller]["user"].reading
    /\ timeRet[Caller]["kernel"].reading # timeRet[Caller]["total"].reading
    /\ ReadingLe(platform, timeRet[Caller]["kernel"].reading, timeRet[Caller]["total"].reading)
    /\ timeRet[Caller]["total"].reading = cpu

(***************************************************************************)
(* C8: linux: parseStatus parses the digit run as an unsigned integer:     *)
(* every run whose value fits 64 bits unsigned gives OK with that value,   *)
(* and a run that does not gives OK with 0, so that the query returns 0.   *)
(***************************************************************************)
DigitRunParsedUnsigned ==
    \A c \in FileReturns :
        LET r == memRet[c[1]][c[2]]
            file == StatusFiles[r.file]
            first == FirstKeyLine(r.file, c[2])
        IN  (first # 0 /\ file[first].run # <<>>) =>
               /\ r.result.resultType = "OK"
               /\ FitsU64(RunValue(file[first].run))
                  => U64ToDec(r.result.value) = RunValue(file[first].run)
               /\ ~FitsU64(RunValue(file[first].run))
                  => (r.result.value = U64Zero /\ r.val = U64Zero)

(***************************************************************************)
(* C9: linux: each of kernel and user time is seconds*1000 +               *)
(* microseconds/1000 with the residue below a millisecond dropped, and the *)
(* total is the sum of the two.                                            *)
(***************************************************************************)
TimevalMs(tv) == tv.tv_sec * 1000 + (tv.tv_usec \div 1000)

RusageInWholeMilliseconds ==
    platform = "linux" =>
        \A t \in Threads, q \in TimeQueries :
            LET r == timeRet[t][q]
            IN  r.called =>
                   /\ q = "kernel" => r.val = FromNat(TimevalMs(r.reading.ru_stime))
                   /\ q = "user" => r.val = FromNat(TimevalMs(r.reading.ru_utime))
                   /\ q = "total" => r.val = FromNat(TimevalMs(r.reading.ru_stime)
                                                     + TimevalMs(r.reading.ru_utime))

\* 1 s 999999 us of kernel time came back as 1999 ms, and 1500 us of user
\* time as 1 ms.
RusageInWholeMillisecondsReached ==
    /\ platform = "linux"
    /\ timeRet[Caller]["kernel"].called
    /\ timeRet[Caller]["kernel"].reading.ru_stime = [tv_sec |-> 1, tv_usec |-> 999999]
    /\ timeRet[Caller]["kernel"].val = FromNat(1999)
    /\ timeRet[Caller]["user"].called
    /\ timeRet[Caller]["user"].reading.ru_utime = [tv_sec |-> 0, tv_usec |-> 1500]
    /\ timeRet[Caller]["user"].val = FromNat(1)
    /\ timeRet[Caller]["total"].called

(***************************************************************************)
(* C10: linux: a memory query holds the status file open only while it     *)
(* runs: whenever no query is running, whichever way the last one          *)
(* returned, no file handle is open.                                       *)
(***************************************************************************)
StatusFileClosedOnReturn ==
    \A t \in Threads :
        /\ pc[t] = "idle" => is[t] = "closed"
        /\ pc[t] = "scan" => is[t] = "open"

\* One query has returned from inside the loop, the other at the end of the
\* file, and the handle is closed.
StatusFileClosedOnReturnReached ==
    /\ platform = "linux"
    /\ pc[Caller] = "idle"
    /\ is[Caller] = "closed"
    /\ memRet[Caller]["workingSet"].called
    /\ memRet[Caller]["workingSet"].result.resultType = "OK"
    /\ memRet[Caller]["workingSet"].scanned = 3
    /\ memRet[Caller]["private"].called
    /\ memRet[Caller]["private"].file = 2
    /\ memRet[Caller]["private"].scanned = 0
====
